---- MODULE Spec2Model ----
(***************************************************************************)
(* A model of the NFT demo: the service class HederaNftService             *)
(* (src/unnamed/part_000) and the script main (src/index.js).              *)
(*                                                                         *)
(* A task is one call a caller has made and what it has led to: the call   *)
(* stack of async frames, the requests handed to the SDK and the outcome.  *)
(* One action is one segment of a method between two awaits.  A request    *)
(* is pending until the SDK settles it (SdkSucceed, SdkFail).  Nothing in  *)
(* the service keeps a caller from calling a method while another call is  *)
(* suspended, so several tasks may be under way.  The remote ledger is     *)
(* the variable ledger.                                                    *)
(***************************************************************************)
EXTENDS Integers, Sequences, FiniteSets, TLC

\* ------------------------------------------------------------- bounds
\* calls a client that awaits them makes on one service object
MaxCalls == 3
\* calls a client that does not await them makes on one service object
MaxConcurrentCalls == 2
\* account records one client creates
MaxAccounts == 2

\* ---------------------------------------------------- program constants
\* createAccount(initialBalance = 100)
DefaultInitialBalance == 100
\* createNFTToken: the default maxSupply of the config
DefaultMaxSupply == 250
\* main: createAccount(500), the treasury
UniversityBalance == 500
\* main: createAccount(150), the receiver
BobBalance == 150

VARIABLES
    env,        \* process.env: "ok", "missing" or "invalid" operator credentials
    mode,       \* who drives the service: "main" (index.js), or a client that awaits
                \*   its calls ("api") or does not ("concurrent")
    client,     \* this.client: 0 is null, n > 0 the n-th handle created
    handles,    \* how many handles Client.forTestnet() has created
    closed,     \* the handles on which close() was called
    keys,       \* how many key pairs PrivateKey.generateED25519() has generated
    heap,       \* the account records createAccount has returned
    tokenRecs,  \* the token records createNFTToken has returned
    tasks,      \* the calls under way and those just finished, each with
                \*   stack: its call stack of async frames, the running frame last
                \*   ret:   what its frame that finished last handed to its caller
                \*   log:   the SDK requests it has submitted
    ledger,     \* the remote ledger
    calls,      \* how many calls the client has made
    demoError   \* the message main's catch block printed, "" when none

vars == <<env, mode, client, handles, closed, keys, heap, tokenRecs, tasks, ledger,
          calls, demoError>>

\* ------------------------------------------------------------- errors
\* what the SDK can fail with: a receipt status error that names the status
\* TOKEN_ALREADY_ASSOCIATED_TO_ACCOUNT, and a failure that names it in another case
SdkErrors ==
    { "receipt for transaction contained error status TOKEN_ALREADY_ASSOCIATED_TO_ACCOUNT",
      "precheck failed: token_already_associated" }
\* a transaction that cannot be frozen or signed
LocalError == "transaction could not be frozen or signed"
\* setOperator on credentials that do not parse
OperatorError == "invalid private key"
\* the constructor's error
MissingEnvError == "Please set OPERATOR_ID and OPERATOR_KEY in your .env file"
ReferenceError(name) == name \o " is not defined"
\* the message of the TypeError a call of something that is no function throws
TypeError(callee) == callee \o " is not a function"

\* ------------------------------------------------------------ strings
Char(s, i) == SubSeq(s, i, i)
From(s, i) == SubSeq(s, i, Len(s))
Digits == {"0", "1", "2", "3", "4", "5", "6", "7", "8", "9"}
DigitValue(c) ==
    CASE c = "0" -> 0 [] c = "1" -> 1 [] c = "2" -> 2 [] c = "3" -> 3 [] c = "4" -> 4
      [] c = "5" -> 5 [] c = "6" -> 6 [] c = "7" -> 7 [] c = "8" -> 8 [] c = "9" -> 9
\* every character of s is one of set
AllIn(s, set) == \A i \in 1..Len(s) : Char(s, i) \in set
\* where the first character of s that is one of set stands, 0 when there is none
Find(s, set) ==
    IF \E i \in 1..Len(s) : Char(s, i) \in set
    THEN CHOOSE i \in 1..Len(s) :
            Char(s, i) \in set /\ \A j \in 1..(i - 1) : Char(s, j) \notin set
    ELSE 0
\* how many zeros s starts with
LeadingZeros(s) == IF AllIn(s, {"0"}) THEN Len(s) ELSE Find(s, Digits \ {"0"}) - 1

\* A string of a client's metadata is the sequence of its UTF-16 code units, numbers
\* of 0..65535, which is what JavaScript's length, JSON.stringify and Number work on.
\* the characters U+0020 to U+005F, the one of code k at k - 31, and U+0061 to U+007E,
\* the one of code k at k - 96; between them stands the grave accent U+0060
Printable ==
    << " !\"#$%&'()*+,-./0123456789:;<=>?@ABCDEFGHIJKLMNOPQRSTUVWXYZ[\\]^_",
       "abcdefghijklmnopqrstuvwxyz{|}~" >>
\* the code units of a string written with these characters
Units(s) ==
    [i \in 1..Len(s) |->
        IF \E k \in 1..Len(Printable[1]) : Char(Printable[1], k) = Char(s, i)
        THEN 31 + CHOOSE k \in 1..Len(Printable[1]) : Char(Printable[1], k) = Char(s, i)
        ELSE 96 + CHOOSE k \in 1..Len(Printable[2]) : Char(Printable[2], k) = Char(s, i)]
\* the characters of code units that are all of these characters
RECURSIVE Text(_)
Text(u) ==
    IF Len(u) = 0 THEN ""
    ELSE IF Len(u) = 1
         THEN IF u[1] < 96 THEN Char(Printable[1], u[1] - 31)
              ELSE Char(Printable[2], u[1] - 96)
    ELSE Text(SubSeq(u, 1, Len(u) \div 2)) \o Text(SubSeq(u, Len(u) \div 2 + 1, Len(u)))
\* what the code unit at i is to a surrogate pair: the high half that starts one, the
\* low half that ends one, a surrogate that is half of no pair, or no surrogate
Half(s, i) ==
    LET IsHigh(c) == c \in 55296..56319
        IsLow(c) == c \in 56320..57343
    IN  IF IsHigh(s[i]) /\ i < Len(s) /\ IsLow(s[i + 1]) THEN "first"
        ELSE IF IsLow(s[i]) /\ i > 1 /\ IsHigh(s[i - 1]) THEN "second"
        ELSE IF IsHigh(s[i]) \/ IsLow(s[i]) THEN "lone"
        ELSE "none"

\* String.prototype.includes
Includes(s, needle) ==
    \E i \in 1..(Len(s) - Len(needle) + 1) : SubSeq(s, i, i + Len(needle) - 1) = needle

\* ------------------------------------------------------------- values
NoTokens == [t \in {} |-> 0]
NoInfo == [name |-> "", symbol |-> "", maxSupply |-> 0, treasury |-> 0, totalSupply |-> 0]
NoResp == [err |-> "", status |-> "", accountId |-> 0, tokenId |-> 0,
           serials |-> <<>>, info |-> NoInfo, tokens |-> NoTokens]
NoRet == [kind |-> "none", val |-> 0, err |-> ""]
Value(v) == [kind |-> "value", val |-> v, err |-> ""]
Thrown(e) == [kind |-> "throw", val |-> 0, err |-> e]

\* a metadata item: a string, given by its code units, or an object given by its
\* <<key, value>> members, strings both
Str(s) == [type |-> "string", value |-> s]
Obj(members) == [type |-> "object", value |-> members]
Strings(list) == [k \in 1..Len(list) |-> Str(Units(list[k]))]
\* metadata inputs of mintNFTs: a list, or a single item that is no list
List(items) == [isArray |-> TRUE, items |-> items]
Single(item) == [isArray |-> FALSE, item |-> item]

\* ------------------------------------------------------------- stack
Stack(t) == tasks[t].stack
Ret(t) == tasks[t].ret
Log(t) == tasks[t].log
Top(t) == Stack(t)[Len(Stack(t))]
Pop(s) == SubSeq(s, 1, Len(s) - 1)
SetTop(t, f) == [Stack(t) EXCEPT ![Len(Stack(t))] = f]
Frame(fn, v) == [fn |-> fn, pc |-> "start", v |-> v]
\* the task has not finished
IsRunning(task) == task.stack # <<>>
\* a method has been called and has not reached its first await: it runs on, and
\* nothing else happens before it has
Entering == \E t \in DOMAIN tasks : IsRunning(tasks[t]) /\ Top(t).pc = "start"
\* the frame that runs next in task t is the one of fn, at pc
At(t, fn, pc) ==
    /\ IsRunning(tasks[t])
    /\ Top(t).fn = fn
    /\ Top(t).pc = pc
    /\ pc = "start" \/ ~Entering
\* the await sites now on the stack, outermost first
Site(t) == [i \in 1..Len(Stack(t)) |-> <<Stack(t)[i].fn, Stack(t)[i].pc>>]

\* ------------------------------------------------------------- ledger
EmptyLedger == [accounts |-> 0, tokens |-> <<>>, nfts |-> <<>>, assoc |-> {}]

Owned(l, acct, tok) ==
    Cardinality({i \in DOMAIN l.nfts : l.nfts[i].token = tok /\ l.nfts[i].owner = acct})
Minted(l, tok) == Cardinality({i \in DOMAIN l.nfts : l.nfts[i].token = tok})
NftAt(l, tok, serial) ==
    {i \in DOMAIN l.nfts : l.nfts[i].token = tok /\ l.nfts[i].serial = serial}

\* whether the ledger accepts the request; a receiver that holds no association with
\* the token is associated by the transfer (an automatic association)
Accepts(l, kind, a) ==
    CASE kind = "execute" -> TRUE
      [] kind = "TokenInfoQuery" -> a.tokenId \in DOMAIN l.tokens
      [] kind = "AccountBalanceQuery" -> a.accountId \in 1..l.accounts
      [] kind = "getReceipt" ->
            CASE a.tx = "AccountCreateTransaction" -> TRUE
              [] a.tx = "TokenCreateTransaction" -> a.treasury \in 1..l.accounts
              [] a.tx = "TokenMintTransaction" -> a.tokenId \in DOMAIN l.tokens
              [] a.tx = "TokenAssociateTransaction" ->
                    /\ a.accountId \in 1..l.accounts
                    /\ a.tokenId \in DOMAIN l.tokens
                    /\ <<a.accountId, a.tokenId>> \notin l.assoc
              [] a.tx = "TransferTransaction" ->
                    /\ a.to \in 1..l.accounts
                    /\ \E i \in NftAt(l, a.tokenId, a.serial) : l.nfts[i].owner = a.from

\* the ledger after it has accepted the request
Applied(l, kind, a) ==
    IF kind # "getReceipt" THEN l
    ELSE CASE a.tx = "AccountCreateTransaction" ->
                [l EXCEPT !.accounts = @ + 1]
           [] a.tx = "TokenCreateTransaction" ->
                [l EXCEPT !.tokens = Append(@, [name |-> a.name, symbol |-> a.symbol,
                                                maxSupply |-> a.maxSupply,
                                                treasury |-> a.treasury]),
                          !.assoc = @ \cup {<<a.treasury, Len(l.tokens) + 1>>}]
           [] a.tx = "TokenMintTransaction" ->
                [l EXCEPT !.nfts = @ \o
                    [k \in 1..Len(a.metadata) |->
                        [token |-> a.tokenId, serial |-> Minted(l, a.tokenId) + k,
                         owner |-> l.tokens[a.tokenId].treasury,
                         metadata |-> a.metadata[k]]]]
           [] a.tx = "TokenAssociateTransaction" ->
                [l EXCEPT !.assoc = @ \cup {<<a.accountId, a.tokenId>>}]
           [] a.tx = "TransferTransaction" ->
                [l EXCEPT !.nfts = [i \in DOMAIN @ |->
                              IF i \in NftAt(l, a.tokenId, a.serial)
                              THEN [@[i] EXCEPT !.owner = a.to] ELSE @[i]],
                          !.assoc = @ \cup {<<a.to, a.tokenId>>}]

\* what the SDK resolves the request with
Response(l, kind, a) ==
    CASE kind = "execute" -> NoResp
      [] kind = "TokenInfoQuery" ->
            [NoResp EXCEPT !.tokenId = a.tokenId,
                           !.info = [name |-> l.tokens[a.tokenId].name,
                                     symbol |-> l.tokens[a.tokenId].symbol,
                                     maxSupply |-> l.tokens[a.tokenId].maxSupply,
                                     treasury |-> l.tokens[a.tokenId].treasury,
                                     totalSupply |-> Minted(l, a.tokenId)]]
      [] kind = "AccountBalanceQuery" ->
            [NoResp EXCEPT !.accountId = a.accountId,
                           !.tokens = [t \in {t \in DOMAIN l.tokens :
                                                <<a.accountId, t>> \in l.assoc}
                                         |-> Owned(l, a.accountId, t)]]
      [] kind = "getReceipt" ->
            CASE a.tx = "AccountCreateTransaction" ->
                    [NoResp EXCEPT !.status = "SUCCESS", !.accountId = l.accounts + 1]
              [] a.tx = "TokenCreateTransaction" ->
                    [NoResp EXCEPT !.status = "SUCCESS", !.tokenId = Len(l.tokens) + 1]
              [] a.tx = "TokenMintTransaction" ->
                    [NoResp EXCEPT !.status = "SUCCESS",
                                   !.serials = [k \in 1..Len(a.metadata) |->
                                                   Minted(l, a.tokenId) + k]]
              [] OTHER -> [NoResp EXCEPT !.status = "SUCCESS"]

\* ---------------------------------------------------------------- SDK
Request(t, kind, arg, h) ==
    [kind |-> kind, arg |-> arg, handle |-> h, site |-> Site(t),
     state |-> "pending", resp |-> NoResp]

Pending(t) == {i \in DOMAIN Log(t) : Log(t)[i].state = "pending"}

\* the SDK resolves a pending request; no promise settles while a method runs
SdkSucceed ==
    /\ ~Entering
    /\ \E t \in DOMAIN tasks : \E i \in Pending(t) :
        /\ Accepts(ledger, Log(t)[i].kind, Log(t)[i].arg)
        /\ tasks' = [tasks EXCEPT
                        ![t].log[i].state = "ok",
                        ![t].log[i].resp = Response(ledger, Log(t)[i].kind, Log(t)[i].arg)]
        /\ ledger' = Applied(ledger, Log(t)[i].kind, Log(t)[i].arg)
        /\ UNCHANGED <<env, mode, client, handles, closed, keys, heap, tokenRecs,
                       calls, demoError>>

\* the SDK rejects a pending request
SdkFail ==
    /\ ~Entering
    /\ \E t \in DOMAIN tasks : \E i \in Pending(t) : \E e \in SdkErrors :
        /\ tasks' = [tasks EXCEPT ![t].log[i].state = "failed",
                                  ![t].log[i].resp = [NoResp EXCEPT !.err = e]]
        /\ UNCHANGED <<env, mode, client, handles, closed, keys, heap, tokenRecs,
                       ledger, calls, demoError>>

\* ------------------------------------------------------------ service
\* a getClient that never finds the handle it stored
HasClientNever(c) == FALSE
\* getClient: if (!this.client)
HasClient(c) == c # 0
\* getClient: this.client after the call
ClientAfter == IF HasClient(client) THEN client ELSE handles + 1
\* getClient: setOperator throws on a handle it has just created
GetClientThrows == ~HasClient(client) /\ env = "invalid"
getClient ==
    /\ client' = ClientAfter
    /\ handles' = IF HasClient(client) THEN handles ELSE handles + 1

\* close()
close ==
    /\ closed' = IF HasClient(client) THEN closed \cup {client} ELSE closed
    /\ client' = 0

\* a call that is not awaited
SettledAlways(r) == TRUE
\* await: the awaited request, the last one submitted, is settled
Settled(r) == r.state # "pending"
Awaited(t) == Log(t)[Len(Log(t))]

\* a catch block that throws a new error wrapping the one it caught
catchBlockWrapping(s, error) == [stack |-> Pop(s), ret |-> Thrown("Error: " \o error)]
\* a catch block that runs the method again
catchBlockRetrying(s, error) == [stack |-> [s EXCEPT ![Len(s)].pc = "start"], ret |-> NoRet]
\* catch (error) { console.error(...); throw error; }
catchBlock(s, error) == [stack |-> Pop(s), ret |-> Thrown(error)]
Throw(t, error) ==
    tasks' = [tasks EXCEPT ![t].stack = catchBlock(Stack(t), error).stack,
                           ![t].ret = catchBlock(Stack(t), error).ret]
Return(t, v) ==
    tasks' = [tasks EXCEPT ![t].stack = Pop(Stack(t)), ![t].ret = Value(v)]
\* submit a request on the handle h and await it at pc
Submit(t, kind, arg, h, pc, v) ==
    tasks' = [tasks EXCEPT ![t].log = Append(Log(t), Request(t, kind, arg, h)),
                           ![t].stack = SetTop(t, [Top(t) EXCEPT !.pc = pc, !.v = v])]
\* await a value that is no request and go on at pc
Await(t, pc, v) ==
    tasks' = [tasks EXCEPT ![t].stack = SetTop(t, [Top(t) EXCEPT !.pc = pc, !.v = v])]
\* call another method of the service and await it at pc
Call(t, callee, pc, v) ==
    tasks' = [tasks EXCEPT
                ![t].stack = Append(SetTop(t, [Top(t) EXCEPT !.pc = pc, !.v = v]), callee),
                ![t].ret = NoRet]
Returned(t) == Ret(t).kind # "none"
Failed(t) == Awaited(t).state = "failed"

\* ------------------------------------------------- createAccount
\* privateKey.publicKey
PublicKey(k) == k

createAccount_start ==
    \E t \in DOMAIN tasks :
    /\ At(t, "createAccount", "start")
    /\ getClient
    /\ IF GetClientThrows
       THEN Throw(t, OperatorError) /\ UNCHANGED keys
       ELSE /\ keys' = keys + 1
            /\ Submit(t, "execute",
                      [tx |-> "AccountCreateTransaction", key |-> PublicKey(keys + 1),
                       initialBalance |-> Top(t).v.initialBalance],
                      ClientAfter, "execute",
                      [Top(t).v EXCEPT !.client = ClientAfter, !.privateKey = keys + 1])
    /\ UNCHANGED <<env, mode, closed, heap, tokenRecs, ledger, calls, demoError>>

createAccount_execute ==
    \E t \in DOMAIN tasks :
    /\ At(t, "createAccount", "execute")
    /\ Settled(Awaited(t))
    /\ IF Failed(t)
       THEN Throw(t, Awaited(t).resp.err)
       ELSE Submit(t, "getReceipt", Awaited(t).arg, Top(t).v.client, "receipt", Top(t).v)
    /\ UNCHANGED <<env, mode, client, handles, closed, keys, heap, tokenRecs, ledger,
                   calls, demoError>>

createAccount_receipt ==
    \E t \in DOMAIN tasks :
    /\ At(t, "createAccount", "receipt")
    /\ Settled(Awaited(t))
    /\ IF Failed(t)
       THEN Throw(t, Awaited(t).resp.err) /\ UNCHANGED heap
       ELSE /\ heap' = Append(heap, [accountId |-> Awaited(t).resp.accountId,
                                     privateKey |-> Top(t).v.privateKey,
                                     publicKey |-> PublicKey(Top(t).v.privateKey),
                                     status |-> Awaited(t).resp.status,
                                     balance |-> Top(t).v.initialBalance])
            /\ Return(t, Len(heap) + 1)
    /\ UNCHANGED <<env, mode, client, handles, closed, keys, tokenRecs, ledger,
                   calls, demoError>>

createAccount ==
    \/ createAccount_start
    \/ createAccount_execute
    \/ createAccount_receipt

\* ------------------------------------------------- createNFTToken
\* const config = { name: "diploma", symbol: "GRAD", maxSupply: 250, ...tokenConfig }
Config(tokenConfig) ==
    [name |-> IF "name" \in DOMAIN tokenConfig THEN tokenConfig.name ELSE "diploma",
     symbol |-> IF "symbol" \in DOMAIN tokenConfig THEN tokenConfig.symbol ELSE "GRAD",
     maxSupply |-> IF "maxSupply" \in DOMAIN tokenConfig THEN tokenConfig.maxSupply
                   ELSE DefaultMaxSupply]

createNFTToken_start ==
    \E t \in DOMAIN tasks :
    /\ At(t, "createNFTToken", "start")
    /\ getClient
    /\ IF GetClientThrows
       THEN Throw(t, OperatorError)
       ELSE Await(t, "freezeWith",
                  [Top(t).v EXCEPT !.client = ClientAfter,
                                !.transaction =
                                    [tx |-> "TokenCreateTransaction",
                                     name |-> Config(Top(t).v.tokenConfig).name,
                                     symbol |-> Config(Top(t).v.tokenConfig).symbol,
                                     maxSupply |-> Config(Top(t).v.tokenConfig).maxSupply,
                                     treasury |-> heap[Top(t).v.treasuryAccount].accountId]])
    /\ UNCHANGED <<env, mode, closed, keys, heap, tokenRecs, ledger, calls, demoError>>

\* after await ...freezeWith(client): transaction.sign(treasuryAccount.privateKey), which may throw
createNFTToken_freezeWith ==
    \E t \in DOMAIN tasks :
    /\ At(t, "createNFTToken", "freezeWith")
    /\ \E returns \in BOOLEAN :
            IF returns THEN Await(t, "sign", Top(t).v) ELSE Throw(t, LocalError)
    /\ UNCHANGED <<env, mode, client, handles, closed, keys, heap, tokenRecs, ledger,
                   calls, demoError>>

\* after await transaction.sign(...): the promise sign returned has rejected, or
\* signedTx.execute(client)
createNFTToken_sign ==
    \E t \in DOMAIN tasks :
    /\ At(t, "createNFTToken", "sign")
    /\ \E signed \in BOOLEAN :
            IF signed
            THEN Submit(t, "execute", Top(t).v.transaction, Top(t).v.client, "execute", Top(t).v)
            ELSE Throw(t, LocalError)
    /\ UNCHANGED <<env, mode, client, handles, closed, keys, heap, tokenRecs, ledger,
                   calls, demoError>>

createNFTToken_execute ==
    \E t \in DOMAIN tasks :
    /\ At(t, "createNFTToken", "execute")
    /\ Settled(Awaited(t))
    /\ IF Failed(t)
       THEN Throw(t, Awaited(t).resp.err)
       ELSE Submit(t, "getReceipt", Awaited(t).arg, Top(t).v.client, "receipt", Top(t).v)
    /\ UNCHANGED <<env, mode, client, handles, closed, keys, heap, tokenRecs, ledger,
                   calls, demoError>>

createNFTToken_receipt ==
    \E t \in DOMAIN tasks :
    /\ At(t, "createNFTToken", "receipt")
    /\ Settled(Awaited(t))
    /\ IF Failed(t)
       THEN Throw(t, Awaited(t).resp.err)
       ELSE Submit(t, "TokenInfoQuery", [tokenId |-> Awaited(t).resp.tokenId], Top(t).v.client,
                   "tokenInfo",
                   [Top(t).v EXCEPT !.tokenId = Awaited(t).resp.tokenId,
                                 !.status = Awaited(t).resp.status])
    /\ UNCHANGED <<env, mode, client, handles, closed, keys, heap, tokenRecs, ledger,
                   calls, demoError>>

\* a createNFTToken that writes the token's status into the treasury's record
createNFTToken_tokenInfo_writing ==
    \E t \in DOMAIN tasks :
    /\ At(t, "createNFTToken", "tokenInfo")
    /\ Settled(Awaited(t))
    /\ IF Failed(t)
       THEN Throw(t, Awaited(t).resp.err) /\ UNCHANGED <<tokenRecs, heap>>
       ELSE /\ tokenRecs' = Append(tokenRecs,
                    [tokenId |-> Top(t).v.tokenId,
                     status |-> Top(t).v.status,
                     name |-> Awaited(t).resp.info.name,
                     symbol |-> Awaited(t).resp.info.symbol,
                     totalSupply |-> Awaited(t).resp.info.totalSupply,
                     maxSupply |-> Awaited(t).resp.info.maxSupply,
                     treasuryAccountId |-> Awaited(t).resp.info.treasury,
                     treasuryAccount |-> Top(t).v.treasuryAccount])
            /\ heap' = [heap EXCEPT ![Top(t).v.treasuryAccount].status = "TREASURY"]
            /\ Return(t, Len(tokenRecs) + 1)
    /\ UNCHANGED <<env, mode, client, handles, closed, keys, ledger, calls,
                   demoError>>

createNFTToken_tokenInfo ==
    \E t \in DOMAIN tasks :
    /\ At(t, "createNFTToken", "tokenInfo")
    /\ Settled(Awaited(t))
    /\ IF Failed(t)
       THEN Throw(t, Awaited(t).resp.err) /\ UNCHANGED tokenRecs
       ELSE /\ tokenRecs' = Append(tokenRecs,
                    [tokenId |-> Top(t).v.tokenId,
                     status |-> Top(t).v.status,
                     name |-> Awaited(t).resp.info.name,
                     symbol |-> Awaited(t).resp.info.symbol,
                     totalSupply |-> Awaited(t).resp.info.totalSupply,
                     maxSupply |-> Awaited(t).resp.info.maxSupply,
                     treasuryAccountId |-> Awaited(t).resp.info.treasury,
                     treasuryAccount |-> Top(t).v.treasuryAccount])
            /\ Return(t, Len(tokenRecs) + 1)
    /\ UNCHANGED <<env, mode, client, handles, closed, keys, heap, ledger, calls,
                   demoError>>

createNFTToken ==
    \/ createNFTToken_start
    \/ createNFTToken_freezeWith
    \/ createNFTToken_sign
    \/ createNFTToken_execute
    \/ createNFTToken_receipt
    \/ createNFTToken_tokenInfo

\* ------------------------------------------------------- mintNFTs
\* a metadataArray that is no array taken for an empty one
MetadatasOfArraysOnly(metadataArray) ==
    IF metadataArray.isArray THEN metadataArray.items ELSE <<>>
\* Array.isArray(metadataArray) ? metadataArray : [metadataArray]
Metadatas(metadataArray) ==
    IF metadataArray.isArray THEN metadataArray.items ELSE <<metadataArray.item>>
\* a < b, for numerals that start with no zero
NumeralLess(a, b) ==
    IF Len(a) # Len(b) THEN Len(a) < Len(b)
    ELSE LET differ == {i \in 1..Len(a) : a[i] # b[i]}
         IN  \E i \in differ :
                /\ \A j \in differ : i <= j
                /\ a[i] < b[i]
\* a property name that is an array index: a canonical numeral below 2^32 - 1
IsArrayIndex(name) ==
    /\ Len(name) > 0
    /\ \A i \in 1..Len(name) : name[i] \in 48..57
    /\ Len(name) = 1 \/ name[1] # 48
    /\ ~NumeralLess(Units("4294967294"), name)
\* whether the object has a property of that name
HasProperty(members, name) == \E k \in DOMAIN members : members[k][1] = name
\* the value of the property: what the last member of that name gives
Get(members, name) ==
    members[CHOOSE k \in DOMAIN members :
                /\ members[k][1] = name
                /\ \A j \in DOMAIN members : members[j][1] = name => j <= k][2]
\* the names of the object's properties in the order JavaScript enumerates them: the
\* array indices in ascending order, then the other names in the order of creation
OwnPropertyKeys(members) ==
    LET created == {k \in DOMAIN members :
                        \A j \in 1..(k - 1) : members[j][1] # members[k][1]}
        indices == {k \in created : IsArrayIndex(members[k][1])}
        others == created \ indices
        byIndex == [i \in 1..Cardinality(indices) |->
                        CHOOSE x \in indices :
                            Cardinality({y \in indices :
                                NumeralLess(members[y][1], members[x][1])}) = i - 1]
        byCreation == [i \in 1..Cardinality(others) |->
                        CHOOSE x \in others : Cardinality({y \in others : y < x}) = i - 1]
        order == byIndex \o byCreation
    IN  [i \in DOMAIN order |-> members[order[i]][1]]
\* what JSON.stringify writes for the characters U+0000 to U+001F, the one of code k at
\* k + 1: a short escape where JSON has one, \uXXXX else
ControlEscapes ==
    << "\\u0000", "\\u0001", "\\u0002", "\\u0003", "\\u0004", "\\u0005", "\\u0006", "\\u0007",
       "\\b", "\\t", "\\n", "\\u000b", "\\f", "\\r", "\\u000e", "\\u000f",
       "\\u0010", "\\u0011", "\\u0012", "\\u0013", "\\u0014", "\\u0015", "\\u0016", "\\u0017",
       "\\u0018", "\\u0019", "\\u001a", "\\u001b", "\\u001c", "\\u001d", "\\u001e", "\\u001f" >>
\* JSON.stringify of one code unit of a string: the quotation mark, the backslash, the
\* control characters and the surrogates that are half of no pair are escaped, these
\* by their four hexadecimal digits in lower case; every other code unit stands for
\* itself
EscapeChar(s, i) ==
    LET c == s[i]
        Hex(d) == Char("0123456789abcdef", d + 1)
    IN  CASE c = 34 -> Units("\\\"")
          [] c = 92 -> Units("\\\\")
          [] c < 32 -> Units(ControlEscapes[c + 1])
          [] Half(s, i) = "lone" ->
                Units("\\u" \o Hex(c \div 4096) \o Hex((c \div 256) % 16)
                      \o Hex((c \div 16) % 16) \o Hex(c % 16))
          [] OTHER -> <<c>>
\* JSON.stringify of a string
QuoteJSONString(s) ==
    LET escaped[i \in 0..Len(s)] ==
            IF i = 0 THEN <<>> ELSE escaped[i - 1] \o EscapeChar(s, i)
    IN  Units("\"") \o escaped[Len(s)] \o Units("\"")
\* JSON.stringify of an object whose members are strings
Stringify(members) ==
    LET names == OwnPropertyKeys(members)
        written[i \in 0..Len(names)] ==
            IF i = 0 THEN <<>>
            ELSE written[i - 1] \o (IF i > 1 THEN Units(",") ELSE <<>>)
                 \o QuoteJSONString(names[i]) \o Units(":")
                 \o QuoteJSONString(Get(members, names[i]))
    IN  Units("{") \o written[Len(names)] \o Units("}")
\* the bytes of the UTF-8 encoding of the character that starts at i: four of a pair,
\* none of the low half already encoded, those of U+FFFD of a surrogate without pair
Utf8At(s, i) ==
    LET c == s[i]
        p == 65536 + ((c - 55296) * 1024) + (s[i + 1] - 56320)
    IN  CASE Half(s, i) = "first" ->
                << 240 + (p \div 262144), 128 + ((p \div 4096) % 64),
                   128 + ((p \div 64) % 64), 128 + (p % 64) >>
          [] Half(s, i) = "second" -> <<>>
          [] Half(s, i) = "lone" -> <<239, 191, 189>>
          [] OTHER ->
                IF c < 128 THEN <<c>>
                ELSE IF c < 2048 THEN <<192 + (c \div 64), 128 + (c % 64)>>
                ELSE <<224 + (c \div 4096), 128 + ((c \div 64) % 64), 128 + (c % 64)>>
\* Buffer.from(string): the bytes of the string's UTF-8 encoding
BufferFrom(s) ==
    LET bytes[i \in 0..Len(s)] == IF i = 0 THEN <<>> ELSE bytes[i - 1] \o Utf8At(s, i)
    IN  bytes[Len(s)]
\* metadatas.map(metadata => Buffer.from(metadataString)), metadataString being
\* typeof metadata === 'string' ? metadata : JSON.stringify(metadata), and a buffer
\* its bytes
MetadataBuffers(metadatas) ==
    [k \in 1..Len(metadatas) |->
        BufferFrom(IF metadatas[k].type = "string" THEN metadatas[k].value
                   ELSE Stringify(metadatas[k].value))]
\* serials?.length || 0, the receipt's serials being a list, empty when it has none
Count(serials) == IF Len(serials) > 0 THEN Len(serials) ELSE 0

mintNFTs_start ==
    \E t \in DOMAIN tasks :
    /\ At(t, "mintNFTs", "start")
    /\ getClient
    /\ IF GetClientThrows
       THEN Throw(t, OperatorError)
       ELSE Await(t, "freezeWith",
                  [Top(t).v EXCEPT !.client = ClientAfter,
                                !.transaction =
                                    [tx |-> "TokenMintTransaction",
                                     tokenId |-> tokenRecs[Top(t).v.tokenData].tokenId,
                                     metadata |-> MetadataBuffers(Metadatas(Top(t).v.metadataArray)),
                                     signer |-> heap[tokenRecs[Top(t).v.tokenData].treasuryAccount].privateKey]])
    /\ UNCHANGED <<env, mode, closed, keys, heap, tokenRecs, ledger, calls, demoError>>

\* after await ...freezeWith(client): transaction.sign(tokenData.treasuryAccount.privateKey), which may throw
mintNFTs_freezeWith ==
    \E t \in DOMAIN tasks :
    /\ At(t, "mintNFTs", "freezeWith")
    /\ \E returns \in BOOLEAN :
            IF returns THEN Await(t, "sign", Top(t).v) ELSE Throw(t, LocalError)
    /\ UNCHANGED <<env, mode, client, handles, closed, keys, heap, tokenRecs, ledger,
                   calls, demoError>>

\* after await transaction.sign(...): the promise sign returned has rejected, or
\* signedTx.execute(client)
mintNFTs_sign ==
    \E t \in DOMAIN tasks :
    /\ At(t, "mintNFTs", "sign")
    /\ \E signed \in BOOLEAN :
            IF signed
            THEN Submit(t, "execute", Top(t).v.transaction, Top(t).v.client, "execute", Top(t).v)
            ELSE Throw(t, LocalError)
    /\ UNCHANGED <<env, mode, client, handles, closed, keys, heap, tokenRecs, ledger,
                   calls, demoError>>

mintNFTs_execute ==
    \E t \in DOMAIN tasks :
    /\ At(t, "mintNFTs", "execute")
    /\ Settled(Awaited(t))
    /\ IF Failed(t)
       THEN Throw(t, Awaited(t).resp.err)
       ELSE Submit(t, "getReceipt", Awaited(t).arg, Top(t).v.client, "receipt", Top(t).v)
    /\ UNCHANGED <<env, mode, client, handles, closed, keys, heap, tokenRecs, ledger,
                   calls, demoError>>

mintNFTs_receipt ==
    \E t \in DOMAIN tasks :
    /\ At(t, "mintNFTs", "receipt")
    /\ Settled(Awaited(t))
    /\ IF Failed(t)
       THEN Throw(t, Awaited(t).resp.err)
       ELSE Return(t, [serials |-> Awaited(t).resp.serials,
                    status |-> Awaited(t).resp.status,
                    tokenId |-> tokenRecs[Top(t).v.tokenData].tokenId,
                    count |-> Count(Awaited(t).resp.serials)])
    /\ UNCHANGED <<env, mode, client, handles, closed, keys, heap, tokenRecs, ledger,
                   calls, demoError>>

mintNFTs ==
    \/ mintNFTs_start
    \/ mintNFTs_freezeWith
    \/ mintNFTs_sign
    \/ mintNFTs_execute
    \/ mintNFTs_receipt

\* ---------------------------------------------- getTokenBasicInfo
getTokenBasicInfo_start ==
    \E t \in DOMAIN tasks :
    /\ At(t, "getTokenBasicInfo", "start")
    /\ getClient
    /\ IF GetClientThrows
       THEN Throw(t, OperatorError)
       ELSE Submit(t, "TokenInfoQuery", [tokenId |-> Top(t).v.tokenId], ClientAfter, "execute",
                   [Top(t).v EXCEPT !.client = ClientAfter])
    /\ UNCHANGED <<env, mode, closed, keys, heap, tokenRecs, ledger, calls, demoError>>

getTokenBasicInfo_execute ==
    \E t \in DOMAIN tasks :
    /\ At(t, "getTokenBasicInfo", "execute")
    /\ Settled(Awaited(t))
    /\ IF Failed(t)
       THEN Throw(t, Awaited(t).resp.err)
       ELSE Return(t, [tokenId |-> Awaited(t).resp.tokenId,
                    name |-> Awaited(t).resp.info.name,
                    symbol |-> Awaited(t).resp.info.symbol,
                    totalSupply |-> Awaited(t).resp.info.totalSupply,
                    maxSupply |-> Awaited(t).resp.info.maxSupply,
                    treasury |-> Awaited(t).resp.info.treasury])
    /\ UNCHANGED <<env, mode, client, handles, closed, keys, heap, tokenRecs, ledger,
                   calls, demoError>>

getTokenBasicInfo ==
    \/ getTokenBasicInfo_start
    \/ getTokenBasicInfo_execute

\* ---------------------------------------- associateTokenToAccount
associateTokenToAccount_start ==
    \E t \in DOMAIN tasks :
    /\ At(t, "associateTokenToAccount", "start")
    /\ getClient
    /\ IF GetClientThrows
       THEN Throw(t, OperatorError)
       ELSE Await(t, "freezeWith",
                  [Top(t).v EXCEPT !.client = ClientAfter,
                                !.transaction =
                                    [tx |-> "TokenAssociateTransaction",
                                     accountId |-> heap[Top(t).v.account].accountId,
                                     tokenId |-> Top(t).v.tokenId,
                                     signer |-> heap[Top(t).v.account].privateKey]])
    /\ UNCHANGED <<env, mode, closed, keys, heap, tokenRecs, ledger, calls, demoError>>

\* after await ...freezeWith(client): transaction.sign(account.privateKey), which may throw
associateTokenToAccount_freezeWith ==
    \E t \in DOMAIN tasks :
    /\ At(t, "associateTokenToAccount", "freezeWith")
    /\ \E returns \in BOOLEAN :
            IF returns THEN Await(t, "sign", Top(t).v) ELSE Throw(t, LocalError)
    /\ UNCHANGED <<env, mode, client, handles, closed, keys, heap, tokenRecs, ledger,
                   calls, demoError>>

\* after await transaction.sign(...): the promise sign returned has rejected, or
\* signedTx.execute(client)
associateTokenToAccount_sign ==
    \E t \in DOMAIN tasks :
    /\ At(t, "associateTokenToAccount", "sign")
    /\ \E signed \in BOOLEAN :
            IF signed
            THEN Submit(t, "execute", Top(t).v.transaction, Top(t).v.client, "execute", Top(t).v)
            ELSE Throw(t, LocalError)
    /\ UNCHANGED <<env, mode, client, handles, closed, keys, heap, tokenRecs, ledger,
                   calls, demoError>>

associateTokenToAccount_execute ==
    \E t \in DOMAIN tasks :
    /\ At(t, "associateTokenToAccount", "execute")
    /\ Settled(Awaited(t))
    /\ IF Failed(t)
       THEN Throw(t, Awaited(t).resp.err)
       ELSE Submit(t, "getReceipt", Awaited(t).arg, Top(t).v.client, "receipt", Top(t).v)
    /\ UNCHANGED <<env, mode, client, handles, closed, keys, heap, tokenRecs, ledger,
                   calls, demoError>>

associateTokenToAccount_receipt ==
    \E t \in DOMAIN tasks :
    /\ At(t, "associateTokenToAccount", "receipt")
    /\ Settled(Awaited(t))
    /\ IF Failed(t)
       THEN Throw(t, Awaited(t).resp.err)
       ELSE Return(t, [status |-> Awaited(t).resp.status,
                    accountId |-> heap[Top(t).v.account].accountId,
                    tokenId |-> Top(t).v.tokenId])
    /\ UNCHANGED <<env, mode, client, handles, closed, keys, heap, tokenRecs, ledger,
                   calls, demoError>>

associateTokenToAccount ==
    \/ associateTokenToAccount_start
    \/ associateTokenToAccount_freezeWith
    \/ associateTokenToAccount_sign
    \/ associateTokenToAccount_execute
    \/ associateTokenToAccount_receipt

\* ---------------------------------------------- getAccountBalance
\* account is an account record, as main and the workflows pass it
getAccountBalance_start ==
    \E t \in DOMAIN tasks :
    /\ At(t, "getAccountBalance", "start")
    /\ getClient
    /\ IF GetClientThrows
       THEN Throw(t, OperatorError)
       ELSE Submit(t, "AccountBalanceQuery", [accountId |-> heap[Top(t).v.account].accountId],
                   ClientAfter, "execute", [Top(t).v EXCEPT !.client = ClientAfter])
    /\ UNCHANGED <<env, mode, closed, keys, heap, tokenRecs, ledger, calls, demoError>>

getAccountBalance_execute ==
    \E t \in DOMAIN tasks :
    /\ At(t, "getAccountBalance", "execute")
    /\ Settled(Awaited(t))
    /\ IF Failed(t)
       THEN Throw(t, Awaited(t).resp.err)
       ELSE Return(t, [accountId |-> heap[Top(t).v.account].accountId,
                    tokens |-> Awaited(t).resp.tokens])
    /\ UNCHANGED <<env, mode, client, handles, closed, keys, heap, tokenRecs, ledger,
                   calls, demoError>>

getAccountBalance ==
    \/ getAccountBalance_start
    \/ getAccountBalance_execute

\* ---------------------------------------------------- transferNFT
\* the chained transaction.sign(...).sign(...) calls the second sign on what the first
\* one returns: a sign that returns a promise has no sign method, and the chained call
\* throws a TypeError before anything is submitted. The SDK decides which.
transferNFT_start ==
    \E t \in DOMAIN tasks :
    /\ At(t, "transferNFT", "start")
    /\ getClient
    /\ IF GetClientThrows
       THEN Throw(t, OperatorError)
       ELSE Await(t, "freezeWith",
                  [Top(t).v EXCEPT !.client = ClientAfter,
                                !.transaction =
                                    [tx |-> "TransferTransaction",
                                     tokenId |-> Top(t).v.tokenId,
                                     serial |-> Top(t).v.serialNumber,
                                     from |-> heap[Top(t).v.fromAccount].accountId,
                                     to |-> heap[Top(t).v.toAccount].accountId]])
    /\ UNCHANGED <<env, mode, closed, keys, heap, tokenRecs, ledger, calls, demoError>>

\* after await ...freezeWith(client): transaction.sign(fromAccount.privateKey).sign(toAccount.privateKey)
transferNFT_freezeWith ==
    \E t \in DOMAIN tasks :
    /\ At(t, "transferNFT", "freezeWith")
    /\ \E outcome \in {"returns", "throws", "no sign"} :
            CASE outcome = "returns" -> Await(t, "sign", Top(t).v)
              [] outcome = "throws" -> Throw(t, LocalError)
              [] outcome = "no sign" -> Throw(t, TypeError("transaction.sign(...).sign"))
    /\ UNCHANGED <<env, mode, client, handles, closed, keys, heap, tokenRecs, ledger,
                   calls, demoError>>

\* after await transaction.sign(...).sign(...): the promise the second sign returned
\* has rejected, or signedTx.execute(client)
transferNFT_sign ==
    \E t \in DOMAIN tasks :
    /\ At(t, "transferNFT", "sign")
    /\ \E signed \in BOOLEAN :
            IF signed
            THEN Submit(t, "execute", Top(t).v.transaction, Top(t).v.client, "execute", Top(t).v)
            ELSE Throw(t, LocalError)
    /\ UNCHANGED <<env, mode, client, handles, closed, keys, heap, tokenRecs, ledger,
                   calls, demoError>>

transferNFT_execute ==
    \E t \in DOMAIN tasks :
    /\ At(t, "transferNFT", "execute")
    /\ Settled(Awaited(t))
    /\ IF Failed(t)
       THEN Throw(t, Awaited(t).resp.err)
       ELSE Submit(t, "getReceipt", Awaited(t).arg, Top(t).v.client, "receipt", Top(t).v)
    /\ UNCHANGED <<env, mode, client, handles, closed, keys, heap, tokenRecs, ledger,
                   calls, demoError>>

transferNFT_receipt ==
    \E t \in DOMAIN tasks :
    /\ At(t, "transferNFT", "receipt")
    /\ Settled(Awaited(t))
    /\ IF Failed(t)
       THEN Throw(t, Awaited(t).resp.err)
       ELSE Return(t, [status |-> Awaited(t).resp.status,
                    tokenId |-> Top(t).v.tokenId,
                    serialNumber |-> Top(t).v.serialNumber,
                    fromAccount |-> heap[Top(t).v.fromAccount].accountId,
                    toAccount |-> heap[Top(t).v.toAccount].accountId])
    /\ UNCHANGED <<env, mode, client, handles, closed, keys, heap, tokenRecs, ledger,
                   calls, demoError>>

transferNFT ==
    \/ transferNFT_start
    \/ transferNFT_freezeWith
    \/ transferNFT_sign
    \/ transferNFT_execute
    \/ transferNFT_receipt

\* ------------------------------------------------------- frames
createAccountCall(initialBalance) ==
    Frame("createAccount", [initialBalance |-> initialBalance, client |-> 0, privateKey |-> 0])
createNFTTokenCall(treasuryAccount, tokenConfig) ==
    Frame("createNFTToken", [treasuryAccount |-> treasuryAccount, tokenConfig |-> tokenConfig,
                             client |-> 0, transaction |-> 0, tokenId |-> 0,
                             status |-> ""])
mintNFTsCall(tokenData, metadataArray) ==
    Frame("mintNFTs", [tokenData |-> tokenData, metadataArray |-> metadataArray, client |-> 0,
                       transaction |-> 0])
getTokenBasicInfoCall(tokenId) ==
    Frame("getTokenBasicInfo", [tokenId |-> tokenId, client |-> 0])
associateTokenToAccountCall(account, tokenId) ==
    Frame("associateTokenToAccount", [account |-> account, tokenId |-> tokenId, client |-> 0,
                                      transaction |-> 0])
getAccountBalanceCall(account) ==
    Frame("getAccountBalance", [account |-> account, client |-> 0])
transferNFTCall(tokenId, fromAccount, toAccount, serialNumber) ==
    Frame("transferNFT", [tokenId |-> tokenId, fromAccount |-> fromAccount,
                          toAccount |-> toAccount, serialNumber |-> serialNumber,
                          client |-> 0, transaction |-> 0])
transferNFTWithBalanceCheckCall(tokenId, fromAccount, toAccount, serialNumber) ==
    Frame("transferNFTWithBalanceCheck",
          [tokenId |-> tokenId, fromAccount |-> fromAccount, toAccount |-> toAccount,
           serialNumber |-> serialNumber, beforeBalanceFrom |-> 0, beforeBalanceTo |-> 0,
           transferResult |-> 0, afterBalanceFrom |-> 0])
createCompleteNFTCollectionCall(tokenConfig, metadataArray, initialBalance) ==
    Frame("createCompleteNFTCollection",
          [tokenConfig |-> tokenConfig, metadataArray |-> metadataArray,
           initialBalance |-> initialBalance, account |-> 0, tokenData |-> 0])

\* ------------------------------------ transferNFTWithBalanceCheck
\* a check that compares the whole message
AlreadyAssociatedExactly(message) == message = "TOKEN_ALREADY_ASSOCIATED"
\* a check that tolerates every failure of the association
AlreadyAssociatedAlways(message) == TRUE
\* error.message.includes("TOKEN_ALREADY_ASSOCIATED")
AlreadyAssociated(message) == Includes(message, "TOKEN_ALREADY_ASSOCIATED")

transferNFTWithBalanceCheck_start ==
    \E t \in DOMAIN tasks :
    /\ At(t, "transferNFTWithBalanceCheck", "start")
    /\ Call(t, getAccountBalanceCall(Top(t).v.fromAccount), "beforeBalanceFrom", Top(t).v)
    /\ UNCHANGED <<env, mode, client, handles, closed, keys, heap, tokenRecs, ledger,
                   calls, demoError>>

transferNFTWithBalanceCheck_beforeBalanceFrom ==
    \E t \in DOMAIN tasks :
    /\ At(t, "transferNFTWithBalanceCheck", "beforeBalanceFrom")
    /\ Returned(t)
    /\ IF Ret(t).kind = "throw"
       THEN Throw(t, Ret(t).err)
       ELSE Call(t, getAccountBalanceCall(Top(t).v.toAccount), "beforeBalanceTo",
                 [Top(t).v EXCEPT !.beforeBalanceFrom = Ret(t).val])
    /\ UNCHANGED <<env, mode, client, handles, closed, keys, heap, tokenRecs, ledger,
                   calls, demoError>>

transferNFTWithBalanceCheck_beforeBalanceTo ==
    \E t \in DOMAIN tasks :
    /\ At(t, "transferNFTWithBalanceCheck", "beforeBalanceTo")
    /\ Returned(t)
    /\ IF Ret(t).kind = "throw"
       THEN Throw(t, Ret(t).err)
       ELSE Call(t, associateTokenToAccountCall(Top(t).v.toAccount, Top(t).v.tokenId), "associate",
                 [Top(t).v EXCEPT !.beforeBalanceTo = Ret(t).val])
    /\ UNCHANGED <<env, mode, client, handles, closed, keys, heap, tokenRecs, ledger,
                   calls, demoError>>

transferNFTWithBalanceCheck_associate ==
    \E t \in DOMAIN tasks :
    /\ At(t, "transferNFTWithBalanceCheck", "associate")
    /\ Returned(t)
    /\ IF Ret(t).kind = "throw" /\ ~AlreadyAssociated(Ret(t).err)
       THEN Throw(t, Ret(t).err)
       ELSE Call(t, transferNFTCall(Top(t).v.tokenId, Top(t).v.fromAccount, Top(t).v.toAccount,
                                 Top(t).v.serialNumber),
                 "transferResult", Top(t).v)
    /\ UNCHANGED <<env, mode, client, handles, closed, keys, heap, tokenRecs, ledger,
                   calls, demoError>>

transferNFTWithBalanceCheck_transferResult ==
    \E t \in DOMAIN tasks :
    /\ At(t, "transferNFTWithBalanceCheck", "transferResult")
    /\ Returned(t)
    /\ IF Ret(t).kind = "throw"
       THEN Throw(t, Ret(t).err)
       ELSE Call(t, getAccountBalanceCall(Top(t).v.fromAccount), "afterBalanceFrom",
                 [Top(t).v EXCEPT !.transferResult = Ret(t).val])
    /\ UNCHANGED <<env, mode, client, handles, closed, keys, heap, tokenRecs, ledger,
                   calls, demoError>>

transferNFTWithBalanceCheck_afterBalanceFrom ==
    \E t \in DOMAIN tasks :
    /\ At(t, "transferNFTWithBalanceCheck", "afterBalanceFrom")
    /\ Returned(t)
    /\ IF Ret(t).kind = "throw"
       THEN Throw(t, Ret(t).err)
       ELSE Call(t, getAccountBalanceCall(Top(t).v.toAccount), "afterBalanceTo",
                 [Top(t).v EXCEPT !.afterBalanceFrom = Ret(t).val])
    /\ UNCHANGED <<env, mode, client, handles, closed, keys, heap, tokenRecs, ledger,
                   calls, demoError>>

\* a result object with the balances read before and after the transfer exchanged
TransferSummarySwapped(v, afterBalanceTo) ==
    [transferResult |-> v.transferResult,
     balances |-> [before |-> [sender |-> v.afterBalanceFrom,
                               receiver |-> afterBalanceTo],
                   after |-> [sender |-> v.beforeBalanceFrom,
                              receiver |-> v.beforeBalanceTo]],
     summary |-> [tokenId |-> v.tokenId,
                  serialNumber |-> v.serialNumber,
                  from |-> heap[v.fromAccount].accountId,
                  to |-> heap[v.toAccount].accountId,
                  success |-> v.transferResult.status = "SUCCESS"]]
\* the result object of the workflow, afterBalanceTo being what the last query returned
TransferSummary(v, afterBalanceTo) ==
    [transferResult |-> v.transferResult,
     balances |-> [before |-> [sender |-> v.beforeBalanceFrom,
                               receiver |-> v.beforeBalanceTo],
                   after |-> [sender |-> v.afterBalanceFrom,
                              receiver |-> afterBalanceTo]],
     summary |-> [tokenId |-> v.tokenId,
                  serialNumber |-> v.serialNumber,
                  from |-> heap[v.fromAccount].accountId,
                  to |-> heap[v.toAccount].accountId,
                  success |-> v.transferResult.status = "SUCCESS"]]

transferNFTWithBalanceCheck_afterBalanceTo ==
    \E t \in DOMAIN tasks :
    /\ At(t, "transferNFTWithBalanceCheck", "afterBalanceTo")
    /\ Returned(t)
    /\ IF Ret(t).kind = "throw"
       THEN Throw(t, Ret(t).err)
       ELSE Return(t, TransferSummary(Top(t).v, Ret(t).val))
    /\ UNCHANGED <<env, mode, client, handles, closed, keys, heap, tokenRecs, ledger,
                   calls, demoError>>

transferNFTWithBalanceCheck ==
    \/ transferNFTWithBalanceCheck_start
    \/ transferNFTWithBalanceCheck_beforeBalanceFrom
    \/ transferNFTWithBalanceCheck_beforeBalanceTo
    \/ transferNFTWithBalanceCheck_associate
    \/ transferNFTWithBalanceCheck_transferResult
    \/ transferNFTWithBalanceCheck_afterBalanceFrom
    \/ transferNFTWithBalanceCheck_afterBalanceTo

\* ------------------------------------ createCompleteNFTCollection
Number(n) == [type |-> "number", value |-> n]
Undefined == [type |-> "undefined", value |-> 0]
\* a length that counts one more than there is, as a test >= 0 would
LengthOffByOne(metadataArray) ==
    IF metadataArray.isArray THEN Number(Len(metadataArray.items) + 1)
    ELSE IF metadataArray.item.type = "string"
         THEN Number(Len(metadataArray.item.value) + 1)
    ELSE IF HasProperty(metadataArray.item.value, Units("length"))
         THEN Str(Get(metadataArray.item.value, Units("length")))
    ELSE Undefined
\* metadataArray.length: of a list and of a string a number, of an object the value of
\* its member of that name, undefined when it has none
Length(metadataArray) ==
    IF metadataArray.isArray THEN Number(Len(metadataArray.items))
    ELSE IF metadataArray.item.type = "string" THEN Number(Len(metadataArray.item.value))
    ELSE IF HasProperty(metadataArray.item.value, Units("length"))
         THEN Str(Get(metadataArray.item.value, Units("length")))
    ELSE Undefined

\* the white space a string under conversion to a number may start and end with, the
\* 25 code units of StrWhiteSpaceChar: the tabulation, the line feed, the line
\* tabulation, the form feed, the carriage return, the space, the no-break space
\* U+00A0, the ogham space mark U+1680, the spaces U+2000 to U+200A, the line and the
\* paragraph separator U+2028 and U+2029, the spaces U+202F, U+205F and U+3000, and
\* the byte order mark U+FEFF
WhiteSpace ==
    {9, 10, 11, 12, 13, 32, 160, 5760, 8232, 8233, 8239, 8287, 12288, 65279}
        \cup 8192..8202
Trim(s) ==
    LET black == {i \in 1..Len(s) : s[i] \notin WhiteSpace}
    IN  IF black = {} THEN <<>>
        ELSE SubSeq(s, CHOOSE i \in black : \A j \in black : i <= j,
                       CHOOSE i \in black : \A j \in black : i >= j)
\* the value of a numeral of at most six digits
RECURSIVE NumeralValue(_)
NumeralValue(s) ==
    IF Len(s) = 0 THEN 0
    ELSE 10 * NumeralValue(SubSeq(s, 1, Len(s) - 1)) + DigitValue(Char(s, Len(s)))
\* the value of an exponent's digits, one beyond every exponent that matters standing
\* for the larger ones
ExponentValue(digits) ==
    LET d == From(digits, LeadingZeros(digits) + 1)
    IN  IF Len(d) > 6 THEN 1000000 ELSE NumeralValue(d)
\* the digits of 2^-1075 from its first one, at 10^-324, on: half of the least number
\* above 0, and the largest that rounds to 0
HalfMinValue ==
    "2470328229206232720882843964341106861825299013071623822127928412503377536351" \o
    "0437593264991818081799618989828234772285886546332835517796989819938739800539" \o
    "0939063150356595155702263922908583924491051844359318028499365361525003193704" \o
    "5767824921936562366986365848075700158576926990370631192827955855133292783433" \o
    "8409351978015531246597263579574622766465272827220056374006485499977096599470" \o
    "4540208281662262378573934507363390079677619305775067401763246736009689513405" \o
    "3553745851666113422376667860416215968046191446729184030053005753084904876539" \o
    "1711386591646239524912623653881879636239373280423891018672348497668235089863" \o
    "3885879256283027559956575244555072551893136908362547791869486679949683240497" \o
    "05821028513185451396213837722826145437693412532098591327667236328125"
\* 0.a > 0.b, for strings of digits
FractionGreater(a, b) ==
    LET Digit(s, i) == IF i <= Len(s) THEN Char(s, i) ELSE "0"
        longest == IF Len(a) > Len(b) THEN Len(a) ELSE Len(b)
        differ == {i \in 1..longest : Digit(a, i) # Digit(b, i)}
    IN  \E i \in differ :
            /\ \A j \in differ : i <= j
            /\ DigitValue(Digit(a, i)) > DigitValue(Digit(b, i))
\* a literal of the base with that prefix, above 0
RadixAboveZero(s, prefixes, digits) ==
    /\ Len(s) > 2
    /\ SubSeq(s, 1, 2) \in prefixes
    /\ AllIn(From(s, 3), digits)
    /\ ~AllIn(From(s, 3), {"0"})
\* an unsigned decimal literal whose value, rounded to a double, is above 0
DecimalAboveZero(u) ==
    LET e == Find(u, {"e", "E"})
        mantissa == IF e = 0 THEN u ELSE SubSeq(u, 1, e - 1)
        exponent == IF e = 0 THEN "" ELSE From(u, e + 1)
        signedExp == Len(exponent) > 0 /\ Char(exponent, 1) \in {"+", "-"}
        expDigits == IF signedExp THEN From(exponent, 2) ELSE exponent
        dot == Find(mantissa, {"."})
        int == IF dot = 0 THEN mantissa ELSE SubSeq(mantissa, 1, dot - 1)
        frac == IF dot = 0 THEN "" ELSE From(mantissa, dot + 1)
        all == int \o frac
        sig == From(all, LeadingZeros(all) + 1)
        exp == IF e = 0 THEN 0
               ELSE IF signedExp /\ Char(exponent, 1) = "-" THEN 0 - ExponentValue(expDigits)
               ELSE ExponentValue(expDigits)
        \* the power of ten the first digit of sig stands at
        scale == Len(int) - LeadingZeros(all) - 1 + exp
    IN  /\ AllIn(int, Digits)
        /\ AllIn(frac, Digits)
        /\ Len(all) > 0
        /\ e # 0 => (Len(expDigits) > 0 /\ AllIn(expDigits, Digits))
        /\ Len(sig) > 0
        /\ \/ scale > -324
           \/ scale = -324 /\ FractionGreater(sig, HalfMinValue)
\* Number(s) > 0, the conversion JavaScript applies to a string it compares with a
\* number: what is left of s without the white space around it is a numeric literal,
\* made of letters, digits, signs and the point, above 0
StringAboveZero(s) ==
    LET u == Trim(s)
        t == Text(u)
    IN  /\ \A i \in 1..Len(u) : u[i] \in (32..126) \ {96}
        /\ \/ t \in {"Infinity", "+Infinity"}
           \/ RadixAboveZero(t, {"0x", "0X"},
                             Digits \cup {"a", "b", "c", "d", "e", "f",
                                          "A", "B", "C", "D", "E", "F"})
           \/ RadixAboveZero(t, {"0o", "0O"}, {"0", "1", "2", "3", "4", "5", "6", "7"})
           \/ RadixAboveZero(t, {"0b", "0B"}, {"0", "1"})
           \/ /\ Len(t) > 0
              /\ Char(t, 1) # "-"
              /\ DecimalAboveZero(IF Char(t, 1) = "+" THEN From(t, 2) ELSE t)
\* x > 0
AboveZero(x) ==
    CASE x.type = "number" -> x.value > 0
      [] x.type = "string" -> StringAboveZero(x.value)
      [] OTHER -> FALSE

\* the result object of the workflow, mintResult being null (minted FALSE) or a mint result
CollectionSummary(v, minted, mintResult) ==
    [account |-> v.account,
     tokenData |-> v.tokenData,
     minted |-> minted,
     mintResult |-> mintResult,
     summary |-> [accountId |-> heap[v.account].accountId,
                  tokenId |-> tokenRecs[v.tokenData].tokenId,
                  nftCount |-> IF minted THEN mintResult.count ELSE 0,
                  serials |-> IF minted THEN mintResult.serials ELSE <<>>]]

createCompleteNFTCollection_start ==
    \E t \in DOMAIN tasks :
    /\ At(t, "createCompleteNFTCollection", "start")
    /\ Call(t, createAccountCall(Top(t).v.initialBalance), "account", Top(t).v)
    /\ UNCHANGED <<env, mode, client, handles, closed, keys, heap, tokenRecs, ledger,
                   calls, demoError>>

createCompleteNFTCollection_account ==
    \E t \in DOMAIN tasks :
    /\ At(t, "createCompleteNFTCollection", "account")
    /\ Returned(t)
    /\ IF Ret(t).kind = "throw"
       THEN Throw(t, Ret(t).err)
       ELSE Call(t, createNFTTokenCall(Ret(t).val, Top(t).v.tokenConfig), "tokenData",
                 [Top(t).v EXCEPT !.account = Ret(t).val])
    /\ UNCHANGED <<env, mode, client, handles, closed, keys, heap, tokenRecs, ledger,
                   calls, demoError>>

createCompleteNFTCollection_tokenData ==
    \E t \in DOMAIN tasks :
    /\ At(t, "createCompleteNFTCollection", "tokenData")
    /\ Returned(t)
    /\ IF Ret(t).kind = "throw"
       THEN Throw(t, Ret(t).err)
       ELSE IF AboveZero(Length(Top(t).v.metadataArray))
            THEN Call(t, mintNFTsCall(Ret(t).val, Top(t).v.metadataArray), "mintResult",
                      [Top(t).v EXCEPT !.tokenData = Ret(t).val])
            ELSE Return(t, CollectionSummary([Top(t).v EXCEPT !.tokenData = Ret(t).val], FALSE, 0))
    /\ UNCHANGED <<env, mode, client, handles, closed, keys, heap, tokenRecs, ledger,
                   calls, demoError>>

createCompleteNFTCollection_mintResult ==
    \E t \in DOMAIN tasks :
    /\ At(t, "createCompleteNFTCollection", "mintResult")
    /\ Returned(t)
    /\ IF Ret(t).kind = "throw"
       THEN Throw(t, Ret(t).err)
       ELSE Return(t, CollectionSummary(Top(t).v, TRUE, Ret(t).val))
    /\ UNCHANGED <<env, mode, client, handles, closed, keys, heap, tokenRecs, ledger,
                   calls, demoError>>

createCompleteNFTCollection ==
    \/ createCompleteNFTCollection_start
    \/ createCompleteNFTCollection_account
    \/ createCompleteNFTCollection_tokenData
    \/ createCompleteNFTCollection_mintResult

\* ----------------------------------------------------------- main
\* src/data/ipfs-cid.js: the list of content identifiers and the collection's description
IPFS_CID_COLLECTION == <<"ipfs://cid-1", "ipfs://cid-2">>
COLLECTION_INFO == [name |-> "collection", symbol |-> "COLL",
                    maxSupply |-> Len(IPFS_CID_COLLECTION)]

\* the expressions main passes as arguments: a literal, a variable, a property of one
Lit(val) == [sel |-> "lit", var |-> "", val |-> val]
Var(name) == [sel |-> "self", var |-> name, val |-> 0]
Prop(name, sel) == [sel |-> sel, var |-> name, val |-> 0]

\* the awaited calls of main's try block, in program order
MainProgram ==
    << [var |-> "university", fn |-> "createAccount", args |-> <<Lit(UniversityBalance)>>],
       [var |-> "bob", fn |-> "createAccount", args |-> <<Lit(BobBalance)>>],
       [var |-> "token", fn |-> "createNFTToken",
        args |-> <<Var("university"),
                   Lit([name |-> COLLECTION_INFO.name, symbol |-> COLLECTION_INFO.symbol,
                        maxSupply |-> COLLECTION_INFO.maxSupply])>>],
       [var |-> "mintResult", fn |-> "mintNFTs",
        args |-> <<Var("token"), Lit(List(Strings(IPFS_CID_COLLECTION)))>>],
       [var |-> "aliceBalanceBefore", fn |-> "getAccountBalance", args |-> <<Var("alice")>>],
       [var |-> "bobBalanceBefore", fn |-> "getAccountBalance", args |-> <<Var("bob")>>],
       [var |-> "transferResult", fn |-> "transferNFTWithBalanceCheck",
        args |-> <<Prop("token", "tokenId"), Var("university"), Var("bob"),
                   Prop("mintResult", "serials[0]")>>],
       [var |-> "universityBalanceAfter", fn |-> "getAccountBalance",
        args |-> <<Var("university")>>],
       [var |-> "bobBalanceAfter", fn |-> "getAccountBalance", args |-> <<Var("bob")>>] >>

\* the value of an argument expression, L binding main's variables
Eval(e, L) ==
    CASE e.sel = "lit" -> e.val
      [] e.sel = "self" -> L[e.var]
      [] e.sel = "tokenId" -> tokenRecs[L[e.var]].tokenId
      [] e.sel = "serials[0]" ->
            IF Len(L[e.var].serials) > 0 THEN L[e.var].serials[1] ELSE 0

\* the arguments that name a variable main never declared
Unresolved(args, L) == {k \in DOMAIN args : args[k].sel # "lit" /\ args[k].var \notin DOMAIN L}
FirstUnresolved(args, L) ==
    args[CHOOSE k \in Unresolved(args, L) : \A j \in Unresolved(args, L) : k <= j].var

\* the frame of the call statement st makes
CallOf(st, L) ==
    CASE st.fn = "createAccount" -> createAccountCall(Eval(st.args[1], L))
      [] st.fn = "createNFTToken" ->
            createNFTTokenCall(Eval(st.args[1], L), Eval(st.args[2], L))
      [] st.fn = "mintNFTs" -> mintNFTsCall(Eval(st.args[1], L), Eval(st.args[2], L))
      [] st.fn = "getAccountBalance" -> getAccountBalanceCall(Eval(st.args[1], L))
      [] st.fn = "transferNFTWithBalanceCheck" ->
            transferNFTWithBalanceCheckCall(Eval(st.args[1], L), Eval(st.args[2], L),
                                            Eval(st.args[3], L), Eval(st.args[4], L))

\* a main that closes the client at the end of its try block only
MainCatchWithoutFinally(t, message) ==
    /\ demoError' = message
    /\ UNCHANGED <<client, closed>>
    /\ tasks' = [tasks EXCEPT ![t].stack = <<>>, ![t].ret = Value(0)]
\* catch (error) { console.error(...) } finally { nftService.close() }
MainCatch(t, message) ==
    /\ demoError' = message
    /\ close
    /\ tasks' = [tasks EXCEPT ![t].stack = <<>>, ![t].ret = Value(0)]

\* run main from its statement ip on, L binding its variables
MainRun(t, ip, L) ==
    IF ip > Len(MainProgram)
    THEN \* return { university, bob, token, mintResult, transferResult }, then finally
         /\ close
         /\ tasks' = [tasks EXCEPT ![t].stack = <<>>, ![t].ret = Value(L)]
         /\ UNCHANGED demoError
    ELSE IF Unresolved(MainProgram[ip].args, L) # {}
         THEN MainCatch(t, ReferenceError(FirstUnresolved(MainProgram[ip].args, L)))
         ELSE /\ Call(t, CallOf(MainProgram[ip], L), MainProgram[ip].var,
                      [L |-> L, ip |-> ip])
              /\ UNCHANGED <<client, closed, demoError>>

\* const nftService = new HederaNftService(), outside the try block
main_new ==
    \E t \in DOMAIN tasks :
    /\ At(t, "main", "new")
    /\ IF env = "missing"
       THEN /\ tasks' = [tasks EXCEPT ![t].stack = <<>>, ![t].ret = Thrown(MissingEnvError)]
            /\ UNCHANGED <<client, closed, demoError>>
       ELSE MainRun(t, 1, Top(t).v.L)
    /\ UNCHANGED <<env, mode, handles, keys, heap, tokenRecs, ledger, calls>>

main_await ==
    \E t \in DOMAIN tasks :
    /\ IsRunning(tasks[t])
    /\ Top(t).fn = "main"
    /\ Top(t).pc # "new"
    /\ Returned(t)
    /\ IF Ret(t).kind = "throw"
       THEN MainCatch(t, Ret(t).err)
       ELSE MainRun(t, Top(t).v.ip + 1, (MainProgram[Top(t).v.ip].var :> Ret(t).val) @@ Top(t).v.L)
    /\ UNCHANGED <<env, mode, handles, keys, heap, tokenRecs, ledger, calls>>

main ==
    \/ main_new
    \/ main_await

\* ------------------------------------------- a client of the service
\* what a client passes: the default token configuration {}, metadata, serial numbers
TokenConfigs == << [x \in {} |-> 0] >>
MetadataInputs ==
    << List(<<>>),
       List(<<Str(Units("ipfs://cid-1")),
              Obj(<< <<Units("name"), Units("diploma")>>,
                     <<Units("year"), Units("2024")>> >>)>>),
       Single(Str(Units("ipfs://cid-1"))),
       Single(Obj(<< <<Units("length"), <<8192, 11, 53, 160>>>> >>)) >>
Serials == 1..Len(IPFS_CID_COLLECTION)

\* There are two clients. The one of mode "api" awaits each asynchronous call before
\* it makes the next one; close() and getClient(), which are synchronous, it may call
\* while a call is suspended. The one of mode "concurrent" awaits nothing: it makes
\* its calls, of whatever kind, while the calls it has made are suspended at an
\* await, for the service has no lock and no queue.
\* a client's code runs when no method is running; it makes so many calls
CanCallNow ==
    /\ mode # "main"
    /\ calls < (IF mode = "api" THEN MaxCalls ELSE MaxConcurrentCalls)
    /\ ~Entering
CanCall == CanCallNow /\ (mode = "api" => \A t \in DOMAIN tasks : ~IsRunning(tasks[t]))
\* so many accounts are created: those there are and those the calls under way will
\* yet create
MayCreateAccount ==
    LET creating ==
            {t \in DOMAIN tasks :
                /\ IsRunning(tasks[t])
                /\ \/ Stack(t)[1].fn = "createAccount"
                   \/ /\ Stack(t)[1].fn = "createCompleteNFTCollection"
                      /\ \/ Stack(t)[1].pc = "start"
                         \/ Stack(t)[1].pc = "account" /\ Len(Stack(t)) = 2}
    IN  Len(heap) + Cardinality(creating) < MaxAccounts
\* the client has taken the outcome of the calls that have finished
Taken == SelectSeq(tasks, IsRunning)
Invoke(frame) ==
    /\ tasks' = Append(Taken, [stack |-> <<frame>>, ret |-> NoRet, log |-> <<>>])
    /\ calls' = calls + 1
    /\ UNCHANGED <<env, mode, client, handles, closed, keys, heap, tokenRecs, ledger,
                   demoError>>

call_createAccount ==
    /\ CanCall
    /\ MayCreateAccount
    /\ Invoke(createAccountCall(DefaultInitialBalance))

call_createNFTToken ==
    /\ CanCall
    /\ \E a \in DOMAIN heap : \E c \in DOMAIN TokenConfigs :
            Invoke(createNFTTokenCall(a, TokenConfigs[c]))

call_mintNFTs ==
    /\ CanCall
    /\ \E t \in DOMAIN tokenRecs : \E m \in DOMAIN MetadataInputs :
            Invoke(mintNFTsCall(t, MetadataInputs[m]))

call_getTokenBasicInfo ==
    /\ CanCall
    /\ \E t \in DOMAIN tokenRecs : Invoke(getTokenBasicInfoCall(tokenRecs[t].tokenId))

call_associateTokenToAccount ==
    /\ CanCall
    /\ \E a \in DOMAIN heap : \E t \in DOMAIN tokenRecs :
            Invoke(associateTokenToAccountCall(a, tokenRecs[t].tokenId))

call_getAccountBalance ==
    /\ CanCall
    /\ \E a \in DOMAIN heap : Invoke(getAccountBalanceCall(a))

call_transferNFT ==
    /\ CanCall
    /\ \E t \in DOMAIN tokenRecs : \E a, b \in DOMAIN heap : \E n \in Serials :
            /\ Invoke(transferNFTCall(tokenRecs[t].tokenId, a, b, n))

call_transferNFTWithBalanceCheck ==
    /\ CanCall
    /\ \E t \in DOMAIN tokenRecs : \E a, b \in DOMAIN heap : \E n \in Serials :
            /\ Invoke(transferNFTWithBalanceCheckCall(tokenRecs[t].tokenId, a, b, n))

call_createCompleteNFTCollection ==
    /\ CanCall
    /\ MayCreateAccount
    /\ \E c \in DOMAIN TokenConfigs : \E m \in DOMAIN MetadataInputs :
            Invoke(createCompleteNFTCollectionCall(TokenConfigs[c], MetadataInputs[m],
                                                   DefaultInitialBalance))

\* close() is synchronous, and nothing keeps a client from calling it while a call
\* it made is suspended at an await: the suspended methods keep the handle they got
call_close ==
    /\ CanCallNow
    /\ close
    /\ calls' = calls + 1
    /\ tasks' = Taken
    /\ UNCHANGED <<env, mode, handles, keys, heap, tokenRecs, ledger, demoError>>

\* getClient() is a public method: it returns the handle, or throws what setOperator
\* throws, after it has stored the handle it created
call_getClient ==
    /\ CanCallNow
    /\ getClient
    /\ calls' = calls + 1
    /\ tasks' = Taken
    /\ UNCHANGED <<env, mode, closed, keys, heap, tokenRecs, ledger, demoError>>

\* ------------------------------------------------------------ spec
Start(modes) ==
    /\ mode \in modes
    /\ env \in IF mode = "main" THEN {"ok", "invalid", "missing"} ELSE {"ok", "invalid"}
    /\ client = 0
    /\ handles = 0
    /\ closed = {}
    /\ keys = 0
    /\ heap = <<>>
    /\ tokenRecs = <<>>
    /\ tasks = IF mode = "main"
               THEN << [stack |-> <<[fn |-> "main", pc |-> "new",
                                     v |-> [L |-> <<>>, ip |-> 0]]>>,
                        ret |-> NoRet,
                        log |-> <<>>] >>
               ELSE <<>>
    /\ ledger = EmptyLedger
    /\ calls = 0
    /\ demoError = ""

\* main, or a client that awaits its calls
Init == Start({"main", "api"})
\* main, or a client that does not
InitConcurrent == Start({"main", "concurrent"})

Next ==
    \/ SdkSucceed
    \/ SdkFail
    \/ createAccount
    \/ createNFTToken
    \/ mintNFTs
    \/ getTokenBasicInfo
    \/ associateTokenToAccount
    \/ getAccountBalance
    \/ transferNFT
    \/ transferNFTWithBalanceCheck
    \/ createCompleteNFTCollection
    \/ main
    \/ call_createAccount
    \/ call_createNFTToken
    \/ call_mintNFTs
    \/ call_getTokenBasicInfo
    \/ call_associateTokenToAccount
    \/ call_getAccountBalance
    \/ call_transferNFT
    \/ call_transferNFTWithBalanceCheck
    \/ call_createCompleteNFTCollection
    \/ call_close
    \/ call_getClient

Spec == Init /\ [][Next]_vars
SpecConcurrent == InitConcurrent /\ [][Next]_vars

\* ============================================================ claims
\* main is the one task of mode "main"
MainFinished == mode = "main" /\ ~IsRunning(tasks[1])
\* the transactions of one type among the requests of a log
Executes(log, tx) == {i \in DOMAIN log : log[i].kind = "execute" /\ log[i].arg.tx = tx}
BalanceQueries(log) == {i \in DOMAIN log : log[i].kind = "AccountBalanceQuery"}
\* task t is a client's call of the method fn that has submitted a request
CallOfMethod(t, fn) == mode # "main" /\ Log(t) # <<>> /\ Log(t)[1].site[1][1] = fn
\* the call has finished
Finished(t) == ~IsRunning(tasks[t])
\* the step is one a method of task t takes: no step of the SDK, no call of the client
StepOf(t) == calls' = calls /\ tasks'[t].stack # tasks[t].stack
Needle == "TOKEN_ALREADY_ASSOCIATED"

\* C1: a run of main in which every SDK call succeeds submits two account
\* creations, then one token creation, then one mint of the content-identifier
\* list, then one NFT transfer, before it finishes.
C1_MainSubmitsTransfer ==
    ( /\ MainFinished
      /\ env = "ok"
      /\ \A i \in DOMAIN Log(1) : Log(1)[i].state # "failed"
      /\ demoError \notin {LocalError, OperatorError} )
    => LET log == Log(1) IN
       /\ Cardinality(Executes(log, "AccountCreateTransaction")) = 2
       /\ Cardinality(Executes(log, "TokenCreateTransaction")) = 1
       /\ Cardinality(Executes(log, "TokenMintTransaction")) = 1
       /\ Cardinality(Executes(log, "TransferTransaction")) = 1
       /\ \A m \in Executes(log, "TokenMintTransaction") :
              log[m].arg.metadata = MetadataBuffers(Strings(IPFS_CID_COLLECTION))
       /\ \A a \in Executes(log, "AccountCreateTransaction") :
          \A c \in Executes(log, "TokenCreateTransaction") :
          \A m \in Executes(log, "TokenMintTransaction") :
          \A x \in Executes(log, "TransferTransaction") : a < c /\ c < m /\ m < x

\* C2: the service holds no client until its first operation, and as long as no
\* handle has been closed at most one handle exists: the service holds it and
\* every request is submitted on it.
C2_SingleClientHandle ==
    /\ (mode # "main" /\ calls = 0) => (client = 0 /\ handles = 0)
    /\ (mode = "main" /\ At(1, "main", "new")) => (client = 0 /\ handles = 0)
    /\ closed = {} =>
          /\ handles <= 1
          /\ client = handles
          /\ \A t \in DOMAIN tasks : \A i \in DOMAIN Log(t) : Log(t)[i].handle = 1
C2_Witness ==
    /\ mode = "api"
    /\ closed = {}
    /\ calls >= 2
    /\ handles = 1
    /\ \E t \in DOMAIN tasks : Log(t) # <<>>

\* C3: when main has finished, after a success or after a failure at any step,
\* the service holds no client and every handle that was created is closed.
C3_MainReleasesClient ==
    MainFinished => (client = 0 /\ \A h \in 1..handles : h \in closed)
C3_Witness ==
    /\ MainFinished
    /\ handles = 1
    /\ closed = {1}
    /\ demoError \in SdkErrors
    /\ Executes(Log(1), "TokenMintTransaction") # {}

\* C4: a service method that awaits an SDK request which has failed ends by throwing
\* the error of that request, and createCompleteNFTCollection ends by throwing the error
\* the method it called threw; neither returns a result.
ServiceMethods ==
    {"createAccount", "createNFTToken", "mintNFTs", "getTokenBasicInfo",
     "associateTokenToAccount", "getAccountBalance", "transferNFT"}
C4_MethodsRethrowUnchanged ==
    [][ \A t \in DOMAIN tasks :
        /\ ( /\ IsRunning(tasks[t])
             /\ Top(t).fn \in ServiceMethods
             /\ Top(t).pc \notin {"start", "freezeWith", "sign"}
             /\ Log(t) # <<>>
             /\ Awaited(t).state = "failed"
             /\ StepOf(t) )
           => ( /\ tasks'[t].stack = Pop(Stack(t))
                /\ tasks'[t].ret.kind = "throw"
                /\ tasks'[t].ret.err = Awaited(t).resp.err )
        /\ ( /\ IsRunning(tasks[t])
             /\ Top(t).fn = "createCompleteNFTCollection"
             /\ Top(t).pc # "start"
             /\ Ret(t).kind = "throw"
             /\ StepOf(t) )
           => ( /\ tasks'[t].stack = Pop(Stack(t))
                /\ tasks'[t].ret.kind = "throw"
                /\ tasks'[t].ret.err = Ret(t).err ) ]_vars
C4_Witness ==
    \E t \in DOMAIN tasks :
        /\ CallOfMethod(t, "createCompleteNFTCollection")
        /\ Finished(t)
        /\ Awaited(t).kind = "getReceipt"
        /\ Awaited(t).arg.tx = "TokenMintTransaction"
        /\ Awaited(t).state = "failed"
        /\ Ret(t).kind = "throw"
        /\ Ret(t).err = Awaited(t).resp.err

\* C5: within one invocation no await site submits its request twice, so no
\* request is submitted again after it has failed.
C5_NoRetry ==
    \A t \in DOMAIN tasks : \A i, j \in DOMAIN Log(t) :
        i # j => ~(Log(t)[i].site = Log(t)[j].site /\ Log(t)[i].kind = Log(t)[j].kind)
C5_Witness ==
    \E t \in DOMAIN tasks :
        /\ Finished(t)
        /\ \E i \in DOMAIN Log(t) : Log(t)[i].state = "failed" /\ i + 2 <= Len(Log(t))

\* C6: when the association in transferNFTWithBalanceCheck has failed with a message
\* that contains TOKEN_ALREADY_ASSOCIATED, the workflow does not fail: its next
\* step is the call of transferNFT.
C6_AlreadyAssociatedTolerated ==
    [][ \A t \in DOMAIN tasks :
        ( /\ IsRunning(tasks[t])
          /\ Top(t).fn = "transferNFTWithBalanceCheck"
          /\ Top(t).pc = "associate"
          /\ Ret(t).kind = "throw"
          /\ Includes(Ret(t).err, Needle)
          /\ StepOf(t) )
        => ( /\ Len(tasks'[t].stack) = Len(Stack(t)) + 1
             /\ tasks'[t].stack[Len(Stack(t))].fn = "transferNFTWithBalanceCheck"
             /\ tasks'[t].stack[Len(Stack(t))].pc = "transferResult"
             /\ tasks'[t].stack[Len(Stack(t)) + 1].fn = "transferNFT"
             /\ tasks'[t].stack[Len(Stack(t)) + 1].pc = "start" ) ]_vars
\* the workflow has returned a result after such a failure
C6_Witness ==
    \E t \in DOMAIN tasks :
        /\ CallOfMethod(t, "transferNFTWithBalanceCheck")
        /\ Finished(t)
        /\ Ret(t).kind = "value"
        /\ \E i \in DOMAIN Log(t) :
              /\ Log(t)[i].state = "failed"
              /\ Includes(Log(t)[i].resp.err, Needle)
              /\ \E x \in Executes(Log(t), "TransferTransaction") : i < x

\* C7: every invocation, be it the run of main, a call of a workflow function or a
\* call of another method, has at most one SDK request in flight, and each of its
\* requests but the last has succeeded or failed: it submits a request only after
\* its previous one is settled. This holds of each call of a client that lets its
\* calls overlap; the requests of two such calls are then in flight together.
C7_OneRequestInFlight ==
    \A t \in DOMAIN tasks :
        /\ Cardinality(Pending(t)) <= 1
        /\ \A i \in DOMAIN Log(t) : i < Len(Log(t)) => Log(t)[i].state # "pending"
\* a call of each workflow function, both under way, each with a request in flight
C7_Witness ==
    \E s, t \in DOMAIN tasks :
        /\ IsRunning(tasks[s])
        /\ Stack(s)[1].fn = "createCompleteNFTCollection"
        /\ Cardinality(Pending(s)) = 1
        /\ IsRunning(tasks[t])
        /\ Stack(t)[1].fn = "transferNFTWithBalanceCheck"
        /\ Len(Log(t)) >= 4
        /\ Cardinality(Pending(t)) = 1

\* C8: no step changes an account record that createAccount has returned.
C8_AccountRecordsImmutable ==
    [][ \A i \in DOMAIN heap : i \in DOMAIN heap' /\ heap'[i] = heap[i] ]_vars
\* both records have been through a token creation, a mint and a transfer workflow
C8_Witness ==
    /\ Len(heap) = 2
    /\ tokenRecs # <<>>
    /\ \A i \in DOMAIN heap : heap[i].status = "SUCCESS" /\ heap[i].accountId = i
    /\ \E t \in DOMAIN tasks :
          /\ CallOfMethod(t, "transferNFTWithBalanceCheck")
          /\ Finished(t)
          /\ Ret(t).kind = "value"
          /\ Ret(t).val.summary.from # Ret(t).val.summary.to

\* C9: transferNFTWithBalanceCheck submits, in this order, the balance query of the
\* sender, that of the receiver, the association of the receiver, the transfer,
\* the balance query of the sender and that of the receiver; the 'before' balances
\* of its result are the first two answers and the 'after' balances the answers
\* to the queries submitted after the transfer's receipt.
IsStep(r) == r.kind # "getReceipt"
Steps(log) == SelectSeq(log, IsStep)
StepKind(r) == IF r.kind = "execute" THEN r.arg.tx ELSE r.kind
WorkflowOrder ==
    << "AccountBalanceQuery", "AccountBalanceQuery", "TokenAssociateTransaction",
       "TransferTransaction", "AccountBalanceQuery", "AccountBalanceQuery" >>
C9_TransferWorkflowOrder ==
    \A t \in DOMAIN tasks :
    CallOfMethod(t, "transferNFTWithBalanceCheck") =>
        LET log == Log(t)
            ret == Ret(t)
            steps == Steps(Log(t))
        IN
        /\ Len(steps) <= Len(WorkflowOrder)
        /\ \A k \in DOMAIN steps : StepKind(steps[k]) = WorkflowOrder[k]
        /\ \A i \in DOMAIN log :
              log[i].kind = "getReceipt" =>
                  /\ i > 1
                  /\ log[i - 1].kind = "execute"
                  /\ log[i - 1].state = "ok"
                  /\ log[i - 1].arg = log[i].arg
        /\ Len(steps) >= 3 => steps[3].arg.accountId = steps[2].arg.accountId
        /\ Len(steps) >= 4 =>
              /\ steps[4].arg.from = steps[1].arg.accountId
              /\ steps[4].arg.to = steps[2].arg.accountId
        /\ Len(steps) >= 5 => steps[5].arg.accountId = steps[1].arg.accountId
        /\ Len(steps) >= 6 => steps[6].arg.accountId = steps[2].arg.accountId
        /\ (Finished(t) /\ ret.kind = "value") =>
              /\ Len(steps) = 6
              /\ Len(log) >= 3
              /\ log[Len(log) - 2].kind = "getReceipt"
              /\ log[Len(log) - 2].arg.tx = "TransferTransaction"
              /\ log[Len(log) - 2].state = "ok"
              /\ ret.val.balances.before.sender.tokens = steps[1].resp.tokens
              /\ ret.val.balances.before.receiver.tokens = steps[2].resp.tokens
              /\ ret.val.balances.after.sender.tokens = steps[5].resp.tokens
              /\ ret.val.balances.after.receiver.tokens = steps[6].resp.tokens
              /\ ret.val.balances.before.sender.accountId = steps[1].arg.accountId
              /\ ret.val.balances.before.receiver.accountId = steps[2].arg.accountId
              /\ ret.val.balances.after.sender.accountId = steps[5].arg.accountId
              /\ ret.val.balances.after.receiver.accountId = steps[6].arg.accountId
\* a finished workflow whose transfer changed the sender's balance
C9_Witness ==
    \E t \in DOMAIN tasks :
        /\ CallOfMethod(t, "transferNFTWithBalanceCheck")
        /\ Finished(t)
        /\ Ret(t).kind = "value"
        /\ Ret(t).val.balances.before.sender.tokens # Ret(t).val.balances.after.sender.tokens

\* C10: when the association in transferNFTWithBalanceCheck has failed with a message
\* that does not contain TOKEN_ALREADY_ASSOCIATED, the workflow ends by throwing
\* that error, having submitted no transfer and no balance query but the first two.
C10_OtherAssociationFailureFatal ==
    [][ \A t \in DOMAIN tasks :
        ( /\ IsRunning(tasks[t])
          /\ Top(t).fn = "transferNFTWithBalanceCheck"
          /\ Top(t).pc = "associate"
          /\ Ret(t).kind = "throw"
          /\ ~Includes(Ret(t).err, Needle)
          /\ StepOf(t) )
        => ( /\ tasks'[t].stack = Pop(Stack(t))
             /\ tasks'[t].ret.kind = "throw"
             /\ tasks'[t].ret.err = Ret(t).err
             /\ tasks'[t].log = Log(t)
             /\ Executes(Log(t), "TransferTransaction") = {}
             /\ Cardinality(BalanceQueries(Log(t))) = 2 ) ]_vars
C10_Witness ==
    \E t \in DOMAIN tasks :
        /\ CallOfMethod(t, "transferNFTWithBalanceCheck")
        /\ Finished(t)
        /\ Ret(t).kind = "throw"
        /\ ~Includes(Ret(t).err, Needle)
        /\ Awaited(t).kind = "getReceipt"
        /\ Awaited(t).arg.tx = "TokenAssociateTransaction"
        /\ Awaited(t).state = "failed"
        /\ Awaited(t).resp.err = Ret(t).err

\* C11: createCompleteNFTCollection submits the account creation, then the creation of
\* the token whose treasury is the account just created, then the token query, and a
\* mint only of a non-empty metadata list; called with an empty list it submits no
\* mint and returns a null mint result, an NFT count of 0 and no serials.
CollectionOrder ==
    << "AccountCreateTransaction", "TokenCreateTransaction", "TokenInfoQuery",
       "TokenMintTransaction" >>
CollectionOrdered ==
    \A t \in DOMAIN tasks :
    CallOfMethod(t, "createCompleteNFTCollection") =>
        LET log == Log(t)
            steps == Steps(Log(t))
        IN
        /\ Len(steps) <= Len(CollectionOrder)
        /\ \A k \in DOMAIN steps : StepKind(steps[k]) = CollectionOrder[k]
        /\ Len(log) >= 3 =>
              /\ log[2].kind = "getReceipt"
              /\ log[2].state = "ok"
              /\ log[3].arg.treasury = log[2].resp.accountId
        /\ \A m \in Executes(log, "TokenMintTransaction") : log[m].arg.metadata # <<>>
        /\ ( /\ IsRunning(tasks[t])
             /\ Stack(t)[1].v.metadataArray.isArray
             /\ Stack(t)[1].v.metadataArray.items = <<>> )
           => Executes(log, "TokenMintTransaction") = {}
C11_CollectionWorkflow ==
    [][ /\ CollectionOrdered'
        /\ \A t \in DOMAIN tasks :
           ( /\ Len(Stack(t)) = 1
             /\ Stack(t)[1].fn = "createCompleteNFTCollection"
             /\ StepOf(t)
             /\ tasks'[t].stack = <<>>
             /\ tasks'[t].ret.kind = "value" )
           => LET val == tasks'[t].ret.val
                  metadataArray == Stack(t)[1].v.metadataArray
              IN
              /\ tokenRecs'[val.tokenData].treasuryAccount = val.account
              /\ tokenRecs'[val.tokenData].treasuryAccountId = heap'[val.account].accountId
              /\ metadataArray.isArray =>
                    IF metadataArray.items = <<>>
                    THEN /\ Executes(Log(t), "TokenMintTransaction") = {}
                         /\ val.minted = FALSE
                         /\ val.summary.nftCount = 0
                         /\ val.summary.serials = <<>>
                    ELSE /\ Cardinality(Executes(Log(t), "TokenMintTransaction")) = 1
                         /\ val.minted = TRUE ]_vars
\* the workflow has returned from a call with an empty list
C11_Witness ==
    \E t \in DOMAIN tasks :
        /\ CallOfMethod(t, "createCompleteNFTCollection")
        /\ Finished(t)
        /\ Ret(t).kind = "value"
        /\ Ret(t).val.minted = FALSE
        /\ Ret(t).val.summary.nftCount = 0
        /\ Len(Steps(Log(t))) = 3

\* C12: mintNFTs submits one mint transaction, whose metadata has one entry per item
\* of the input, in the input's order, an input that is no list being one item; the
\* count of its result is the number of serials of the receipt, 0 when it has none.
\* the items of the call's input
InputItems(metadataArray) ==
    IF metadataArray.isArray THEN metadataArray.items ELSE <<metadataArray.item>>
C12_MintOneTransaction ==
    \A t \in DOMAIN tasks :
    CallOfMethod(t, "mintNFTs") =>
        LET log == Log(t)
            ret == Ret(t)
        IN
        /\ Len(log) <= 2
        /\ log[1].kind = "execute"
        /\ log[1].arg.tx = "TokenMintTransaction"
        /\ Len(log) = 2 => (log[2].kind = "getReceipt" /\ log[2].arg = log[1].arg)
        /\ IsRunning(tasks[t]) =>
              LET items == InputItems(Stack(t)[1].v.metadataArray) IN
              /\ Len(log[1].arg.metadata) = Len(items)
              /\ \A k \in DOMAIN items :
                    log[1].arg.metadata[k] =
                        BufferFrom(IF items[k].type = "string" THEN items[k].value
                                   ELSE Stringify(items[k].value))
        /\ (Finished(t) /\ ret.kind = "value") =>
              /\ Len(log) = 2
              /\ log[2].state = "ok"
              /\ ret.val.serials = log[2].resp.serials
              /\ ret.val.count = Len(log[2].resp.serials)
              /\ log[2].resp.serials = <<>> => ret.val.count = 0
\* a mint of a single item that was passed without a list
C12_Witness ==
    \E t \in DOMAIN tasks :
        /\ CallOfMethod(t, "mintNFTs")
        /\ Finished(t)
        /\ Ret(t).kind = "value"
        /\ Ret(t).val.count = 1
        /\ Log(t)[1].arg.metadata = <<BufferFrom(Units("ipfs://cid-1"))>>

\* C13: every request is submitted on a handle that is not closed; close() leaves the
\* service without a client, closing the handle it held and nothing when it held
\* none; the operation after a close() works on a handle created for it.
\* a step that runs close(): the client's call of it, or the end of main's try block
CloseStep ==
    \/ mode # "main" /\ calls' = calls + 1 /\ tasks' = Taken /\ client' = 0
    \/ mode = "main" /\ IsRunning(tasks[1]) /\ tasks'[1].stack = <<>>
                     /\ tasks'[1].ret.kind = "value"
C13_NoRequestOnClosedHandle ==
    [][ /\ \A t \in DOMAIN tasks :
              (calls' = calls /\ Len(tasks'[t].log) > Len(Log(t))) =>
                  /\ tasks'[t].log[Len(tasks'[t].log)].handle # 0
                  /\ tasks'[t].log[Len(tasks'[t].log)].handle \notin closed'
        /\ client' \notin closed'
        /\ IF CloseStep
           THEN /\ client' = 0
                /\ closed' = IF client = 0 THEN closed ELSE closed \cup {client}
           ELSE closed' = closed
        /\ (client = 0 /\ client' # 0) =>
              /\ handles' = handles + 1
              /\ client' = handles'
              /\ \A h \in closed : h < client' ]_vars

====
